---- MODULE Spec2Model ----
(***************************************************************************)
(* Hazard-aware routing API: the hazard classifier, the safe-subgraph      *)
(* builder and the A* route search of routing_service.py, together with    *)
(* the /route handler of routes/routing.py that chains them, the graph     *)
(* cache, the in-memory hazard store and route cache of storage_service.py *)
(* and the handlers of routes/hazards.py and routes/routing.py over them.  *)
(*                                                                         *)
(* Coordinates are points of a local metric frame (metres east, metres     *)
(* north); geodesic(...).meters is the distance of that frame rounded up   *)
(* to a whole metre, so that "distance <= radius" is exact for the whole-  *)
(* metre radii used here.                                                  *)
(***************************************************************************)
EXTENDS Integers, Sequences, FiniteSets, TLC

VARIABLES
    graph_cache,        \* RoutingService.graph_cache: cache key -> graph
    hazard_zones,       \* StorageService.hazard_zones: list of HazardZone
    route_cache,        \* StorageService.route_cache: route id -> route data
    started,            \* the startup hook has run
    next_id,            \* stands for the stream of uuid4() route ids
    pc,                 \* position of the route computation in its pipeline
    request,            \* the RouteRequest being served
    graph,              \* the graph instance handed to the core
    hazards,            \* the hazard list the computation uses
    hazards_shared,     \* hazards is the store's own list object
    dangerous_edges,    \* classify: list of edge ids
    edge_hazard_levels, \* classify: edge id -> max level
    stats,              \* classify: edges_checked / hazards_processed
    safe_graph,         \* prune: the pruned copy
    removed_count,      \* prune: edges actually removed
    nearest,            \* findRoute: the snapped <<start_node, end_node>>
    found,              \* findRoute: outcome, route, total_distance
    response            \* what the /route handler answers

vars == <<graph_cache, hazard_zones, route_cache, started, next_id, pc, request,
          graph, hazards, dangerous_edges, edge_hazard_levels, stats,
          safe_graph, removed_count, nearest, found, response,
          hazards_shared>>

None == "None"

-----------------------------------------------------------------------------
(* Bounded input universe *)

\* longest hazard list a request carries
MaxHazards == 2

\* number of /route requests served (route ids handed out)
MaxRoutes == 2

\* vertices of the road network and their coordinates (x = lon, y = lat)
NodePos == (1 :> <<0, 0>>) @@ (2 :> <<100, 0>>) @@ (3 :> <<200, 0>>)
           @@ (4 :> <<100, 100>>)

Edge(u, v, key, length) == [u |-> u, v |-> v, key |-> key, length |-> length]

\* directed edge instances the loaded network may contain; 1->2 has a
\* parallel edge (keys 0 and 1) whose lengths differ
EdgeUniverse == { Edge(1, 2, 0, 120), Edge(1, 2, 1, 100), Edge(2, 3, 0, 100),
                  Edge(3, 2, 0, 100), Edge(1, 4, 0, 150), Edge(4, 3, 0, 150) }

EdgeId(e) == <<e.u, e.v, e.key>>

EndpointsOf(es) == {e.u : e \in es} \cup {e.v : e \in es}

\* what ox.graph_from_place can return: a non-empty MultiDiGraph whose
\* parallel edges are keyed 0, 1, ... and whose vertices all carry an edge
WellKeyed(es) == \A e \in es : e.key > 0 =>
                    \E f \in es : f.u = e.u /\ f.v = e.v /\ f.key = e.key - 1

\* nodes maps each vertex to its coordinate (graph.nodes[n]['x'], ['y'])
MkGraph(es) == [nodes |-> [n \in EndpointsOf(es) |-> NodePos[n]], edges |-> es,
                directed |-> TRUE]

OsmGraphs == { MkGraph(es) : es \in {s \in SUBSET EdgeUniverse : s # {} /\ WellKeyed(s)} }

\* a HazardZone; name is the field's default unless the client writes one
Hazard(id, pos, level, radius_m) ==
    [id |-> id, pos |-> pos, level |-> level, radius_m |-> radius_m,
     name |-> "Hazard Zone"]

Named(hazard, name) == [hazard EXCEPT !.name = name]

\* the zone as a client sends it with "name": null
Unnamed(hazard) == [hazard EXCEPT !.name = None]

\* hazard zones a request may carry
HazardUniverse == { Hazard(None, <<100, 0>>, 6, 1),
                    Hazard(None, <<100, 0>>, 2, 1),
                    Hazard(None, <<50, 0>>, 4, 1),
                    Hazard(None, <<150, 60>>, 7, 60),
                    Hazard(None, <<150, 60>>, 4, 59) }

Thresholds == {3, 4}

Coordinates == { <<0, 0>>, <<200, 0>>, <<-900, 100>> }

SeqsUpTo(S, n) == UNION { [1..k -> S] : k \in 0..n }

HazardLists == SeqsUpTo(HazardUniverse, MaxHazards)

-----------------------------------------------------------------------------
(* Geometry: geopy.distance.geodesic *)

Dist2(p, q) == (p[1] - q[1]) * (p[1] - q[1]) + (p[2] - q[2]) * (p[2] - q[2])

RECURSIVE SqrtSearch(_, _, _)
\* least r in lo..hi with r*r >= n
SqrtSearch(n, lo, hi) ==
    IF lo >= hi THEN lo
    ELSE LET mid == (lo + hi) \div 2
         IN  IF mid * mid >= n THEN SqrtSearch(n, lo, mid)
             ELSE SqrtSearch(n, mid + 1, hi)

RECURSIVE SqrtCap(_, _)
\* a power of two r with r*r >= n
SqrtCap(n, r) == IF r * r >= n THEN r ELSE SqrtCap(n, 2 * r)

CeilSqrt(n) == SqrtSearch(n, 0, SqrtCap(n, 1))

\* geodesic(p, q).meters
Geodesic(p, q) == CeilSqrt(Dist2(p, q))

Min2(a, b) == IF a <= b THEN a ELSE b

Max2(a, b) == IF a >= b THEN a ELSE b

Min3(a, b, c) == Min2(a, Min2(b, c))

\* ((u_lat + v_lat) / 2, (u_lon + v_lon) / 2); node coordinates are even
Midpoint(p, q) == <<(p[1] + q[1]) \div 2, (p[2] + q[2]) \div 2>>

-----------------------------------------------------------------------------
(* networkx graph primitives *)

\* mutant: the graph is relabelled directed, no reverse edge is added
ToDirected_OneWay(g) == [g EXCEPT !.directed = TRUE]

\* graph.to_directed(): each undirected edge yields both directions
ToDirected(g) ==
    [nodes |-> g.nodes,
     edges |-> g.edges \cup { Edge(e.v, e.u, e.key, e.length) : e \in g.edges },
     directed |-> TRUE]

\* the edge instance that (u, v, key) addresses, as a set (empty or one edge)
EdgesAt(g, u, v, key) ==
    { e \in g.edges : /\ e.key = key
                      /\ \/ (e.u = u /\ e.v = v)
                         \/ (~g.directed /\ e.u = v /\ e.v = u) }

\* mutant: the presence test answers yes for every identifier
HasEdgeKey_Always(g, u, v, key) == TRUE

\* graph.has_edge(u, v, key)
HasEdgeKey(g, u, v, key) == EdgesAt(g, u, v, key) # {}

\* mutant: every parallel edge from u to v goes, whatever its key
RemoveEdge_AnyKey(g, u, v, key) ==
    [g EXCEPT !.edges = { e \in g.edges : ~(e.u = u /\ e.v = v) }]

\* mutant: the removal lands on another graph object, the graph keeps the edge
RemoveEdge_WrongGraph(g, u, v, key) == g

\* graph.remove_edge(u, v, key)
RemoveEdge(g, u, v, key) == [g EXCEPT !.edges = g.edges \ EdgesAt(g, u, v, key)]

\* parallel edges joining u to v
EdgesBetween(g, u, v) ==
    { e \in g.edges : \/ (e.u = u /\ e.v = v)
                      \/ (~g.directed /\ e.u = v /\ e.v = u) }

HasEdge(g, u, v) == EdgesBetween(g, u, v) # {}

\* nx.isolates: vertices with no incident edge in either direction
Isolates(g) == { n \in DOMAIN g.nodes : \A e \in g.edges : e.u # n /\ e.v # n }

\* graph.remove_nodes_from(ns): the vertices go, with every edge touching them
RemoveNodesFrom(g, ns) ==
    [g EXCEPT !.nodes = [n \in (DOMAIN g.nodes) \ ns |-> g.nodes[n]],
              !.edges = { e \in g.edges : e.u \notin ns /\ e.v \notin ns }]

IdLess(a, b) ==
    \/ a[1] < b[1]
    \/ a[1] = b[1] /\ a[2] < b[2]
    \/ a[1] = b[1] /\ a[2] = b[2] /\ a[3] < b[3]

RECURSIVE SortIds(_)
SortIds(ids) ==
    IF ids = {} THEN <<>>
    ELSE LET m == CHOOSE a \in ids : \A b \in ids \ {a} : IdLess(a, b)
         IN  <<m>> \o SortIds(ids \ {m})

\* graph.edges(keys=True): every directed edge id once, in adjacency order
EdgeIds(g) == SortIds({ EdgeId(e) : e \in g.edges })

-----------------------------------------------------------------------------
(* Hazard classifier: RoutingService.identify_dangerous_edges *)

EmptyDict == [x \in {} |-> 0]

DictGet(d, k, default) == IF k \in DOMAIN d THEN d[k] ELSE default

DictPut(d, k, val) == [x \in (DOMAIN d) \cup {k} |-> IF x = k THEN val ELSE d[x]]

InSeq(x, s) == \E i \in 1..Len(s) : s[i] = x

\* mutant: the midpoint distance is left out of the minimum
MinDistance_NoMidpoint(g, id, hazard) ==
    Min2(Geodesic(hazard.pos, g.nodes[id[1]]), Geodesic(hazard.pos, g.nodes[id[2]]))

\* min(dist_to_u, dist_to_v, dist_to_mid) for edge id and hazard centre
MinDistance(g, id, hazard) ==
    LET pu == g.nodes[id[1]]
        pv == g.nodes[id[2]]
    IN  Min3(Geodesic(hazard.pos, pu), Geodesic(hazard.pos, pv),
             Geodesic(hazard.pos, Midpoint(pu, pv)))

\* mutant: a hazard exactly at the threshold is not skipped
SkipHazard_Strict(hazard, danger_threshold) == hazard.level < danger_threshold

\* the skip test at the top of the hazard loop
SkipHazard(hazard, danger_threshold) == hazard.level <= danger_threshold

\* mutant: the level of the last hazard reaching the edge is kept, not the max
CheckEdge_LastWins(g, id, hazard, danger_threshold, acc) ==
    LET counted == [acc EXCEPT !.stats.edges_checked = @ + 1]
    IN  IF MinDistance(g, id, hazard) <= hazard.radius_m
        THEN [counted EXCEPT
                !.edge_hazard_levels = DictPut(@, id, hazard.level),
                !.dangerous_edges =
                    IF hazard.level > danger_threshold /\ ~InSeq(id, @)
                    THEN Append(@, id) ELSE @]
        ELSE counted

\* body of the inner loop for one edge
CheckEdge(g, id, hazard, danger_threshold, acc) ==
    LET counted == [acc EXCEPT !.stats.edges_checked = @ + 1]
    IN  IF MinDistance(g, id, hazard) <= hazard.radius_m
        THEN [counted EXCEPT
                !.edge_hazard_levels =
                    DictPut(@, id, Max2(DictGet(@, id, 0), hazard.level)),
                !.dangerous_edges =
                    IF hazard.level > danger_threshold /\ ~InSeq(id, @)
                    THEN Append(@, id) ELSE @]
        ELSE counted

RECURSIVE ScanEdges(_, _, _, _, _)
\* inner loop: for u, v, key in graph.edges(keys=True)
ScanEdges(g, ids, hazard, danger_threshold, acc) ==
    IF ids = <<>> THEN acc
    ELSE ScanEdges(g, Tail(ids), hazard, danger_threshold,
                   CheckEdge(g, Head(ids), hazard, danger_threshold, acc))

RECURSIVE ScanHazards(_, _, _, _)
\* outer loop: for hazard in hazards
ScanHazards(g, hs, danger_threshold, acc) ==
    IF hs = <<>> THEN acc
    ELSE LET hazard == Head(hs)
         IN  IF SkipHazard(hazard, danger_threshold)
             THEN ScanHazards(g, Tail(hs), danger_threshold, acc)
             ELSE ScanHazards(g, Tail(hs), danger_threshold,
                    ScanEdges(g, EdgeIds(g), hazard, danger_threshold,
                      [acc EXCEPT !.stats.hazards_processed = @ + 1]))

identify_dangerous_edges(g, hs, danger_threshold) ==
    LET dg == IF g.directed THEN g ELSE ToDirected(g)
    IN  ScanHazards(dg, hs, danger_threshold,
            [dangerous_edges |-> <<>>, edge_hazard_levels |-> EmptyDict,
             stats |-> [edges_checked |-> 0, hazards_processed |-> 0]])

-----------------------------------------------------------------------------
(* Safe-subgraph builder: RoutingService.create_safe_graph *)

\* mutant: the copy keeps the structure and loses the vertex coordinates
GraphCopy_NoCoordinates(g) ==
    [g EXCEPT !.nodes = [n \in DOMAIN g.nodes |-> <<0, 0>>]]

\* graph.copy(): the copy is a distinct object with the same content
GraphCopy(g) == g

RECURSIVE RemoveDangerous(_, _)
\* the removal loop over dangerous_edges, on the working graph acc.g
RemoveDangerous(ids, acc) ==
    IF ids = <<>> THEN acc
    ELSE LET id == Head(ids)
         IN  IF HasEdgeKey(acc.g, id[1], id[2], id[3])
             THEN RemoveDangerous(Tail(ids),
                    [g |-> RemoveEdge(acc.g, id[1], id[2], id[3]),
                     removed_count |-> acc.removed_count + 1])
             ELSE RemoveDangerous(Tail(ids), acc)

\* mutant: the stranded vertices are left in the graph
RemoveIsolated_Skipped(g) == g

\* isolated_nodes = list(nx.isolates(safe_graph)); remove_nodes_from
RemoveIsolated(g) == RemoveNodesFrom(g, Isolates(g))

create_safe_graph(g, ids) ==
    LET cut == RemoveDangerous(ids, [g |-> GraphCopy(g), removed_count |-> 0])
    IN  [safe_graph |-> RemoveIsolated(cut.g), removed_count |-> cut.removed_count]

\* mutant: no copy is made, the removals land on the caller's graph
CallerGraphAfterPrune_NoCopy(g, pruned) == pruned

\* the caller's graph object after create_safe_graph(g, ids) returned: the
\* removals went to the copy, so the caller's object is as it was
CallerGraphAfterPrune(g, pruned) == g

-----------------------------------------------------------------------------
(* Route search: RoutingService.calculate_safe_route *)

\* ox.distance.nearest_nodes(graph, X, Y): the vertices at least distance
\* from coord (more than one only on a tie); none when the graph is empty,
\* where the lookup and its fallback both raise
NearestNodes(g, coord) ==
    { n \in DOMAIN g.nodes :
        \A m \in DOMAIN g.nodes : Dist2(g.nodes[n], coord) <= Dist2(g.nodes[m], coord) }

\* heuristic(u, v): geodesic(...).km, kept here in thousandths of a km
Heuristic(g, u, v) == Geodesic(g.nodes[u], g.nodes[v])

RECURSIVE MinLength(_)
MinLength(es) ==
    LET e == CHOOSE x \in es : TRUE
    IN  IF es = {e} THEN e.length ELSE Min2(e.length, MinLength(es \ {e}))

\* networkx weight function on a multigraph: the least 'length' among the
\* parallel edges from u to v
EdgeWeight(g, u, v) == MinLength(EdgesBetween(g, u, v))

\* G._adj[u]: the successors of u
Successors(g, u) == { n \in DOMAIN g.nodes : HasEdge(g, u, n) }

RECURSIVE SortNodes(_)
SortNodes(ns) ==
    IF ns = {} THEN <<>>
    ELSE LET m == CHOOSE a \in ns : \A b \in ns : a <= b
         IN  <<m>> \o SortNodes(ns \ {m})

\* mutant: the queue hands out the entry of greatest priority value
PopMin_Greatest(queue) ==
    CHOOSE a \in queue : \A b \in queue \ {a} :
        a.prio > b.prio \/ (a.prio = b.prio /\ a.cnt < b.cnt)

\* heap order of the queue tuples (priority, counter, ...)
PopMin(queue) ==
    CHOOSE a \in queue : \A b \in queue \ {a} :
        a.prio < b.prio \/ (a.prio = b.prio /\ a.cnt < b.cnt)

\* one neighbour of the node being expanded (nx.astar_path inner loop);
\* costs are metres, priorities thousandths of a metre-or-km unit so that
\* ncost + h keeps the metres-plus-kilometres sum of the code
Relax(g, target, curnode, dist, neighbor, st) ==
    LET ncost == dist + EdgeWeight(g, curnode, neighbor)
        seen  == neighbor \in DOMAIN st.enqueued
    IN  IF seen /\ st.enqueued[neighbor].qcost <= ncost THEN st
        ELSE LET h == IF seen THEN st.enqueued[neighbor].h
                      ELSE Heuristic(g, neighbor, target)
             IN  [st EXCEPT
                    !.enqueued = DictPut(@, neighbor, [qcost |-> ncost, h |-> h]),
                    !.queue = @ \cup {[prio |-> 1000 * ncost + h, cnt |-> st.c,
                                        node |-> neighbor, dist |-> ncost,
                                        parent |-> curnode]},
                    !.c = @ + 1]

RECURSIVE RelaxAll(_, _, _, _, _, _)
RelaxAll(g, target, curnode, dist, ns, st) ==
    IF ns = <<>> THEN st
    ELSE RelaxAll(g, target, curnode, dist, Tail(ns),
                  Relax(g, target, curnode, dist, Head(ns), st))

RECURSIVE BuildPath(_, _, _)
\* walk the parents back from the target and reverse; parent 0 is the
\* None parent of the source (vertices are numbered from 1)
BuildPath(explored, node, path) ==
    IF node = 0 THEN path
    ELSE BuildPath(explored, explored[node], <<node>> \o path)

RECURSIVE AStarLoop(_, _, _)
\* the while-queue loop of nx.astar_path
AStarLoop(g, target, st) ==
    IF st.queue = {} THEN [found |-> FALSE, path |-> <<>>]
    ELSE LET top  == PopMin(st.queue)
             rest == [st EXCEPT !.queue = @ \ {top}]
         IN  IF top.node = target
             THEN [found |-> TRUE,
                   path |-> BuildPath(st.explored, top.parent, <<top.node>>)]
             ELSE IF /\ top.node \in DOMAIN st.explored
                     /\ \/ st.explored[top.node] = 0
                        \/ st.enqueued[top.node].qcost < top.dist
             THEN AStarLoop(g, target, rest)
             ELSE AStarLoop(g, target,
                    RelaxAll(g, target, top.node, top.dist,
                             SortNodes(Successors(g, top.node)),
                             [rest EXCEPT !.explored = DictPut(@, top.node, top.parent)]))

\* nx.astar_path(graph, source, target, heuristic, weight='length')
AStarPath(g, source, target) ==
    AStarLoop(g, target,
        [queue |-> {[prio |-> 0, cnt |-> 0, node |-> source, dist |-> 0,
                     parent |-> 0]},
         enqueued |-> EmptyDict, explored |-> EmptyDict, c |-> 1])

\* graph[u][v][0].get('length', 0): the parallel edge keyed 0; a KeyError
\* when key 0 is not among the edges from u to v
KeyZero(g, u, v) == { e \in EdgesBetween(g, u, v) : e.key = 0 }

RECURSIVE RouteLength(_, _, _, _)
\* the total_distance loop over consecutive route vertices, from index i
RouteLength(g, route, i, total) ==
    IF i >= Len(route) THEN [raised |-> FALSE, total |-> total]
    ELSE LET u == route[i]
             v == route[i + 1]
         IN  IF ~HasEdge(g, u, v) THEN RouteLength(g, route, i + 1, total)
             ELSE IF KeyZero(g, u, v) = {} THEN [raised |-> TRUE, total |-> total]
             ELSE RouteLength(g, route, i + 1,
                              total + (CHOOSE e \in KeyZero(g, u, v) : TRUE).length)

Failure(kind) == [outcome |-> kind, route |-> <<>>, total_distance |-> 0]

\* mutant: NetworkXNoPath is not caught and leaves as a plain exception
calculate_safe_route_Uncaught(g, start_node, end_node) ==
    IF start_node \notin DOMAIN g.nodes \/ end_node \notin DOMAIN g.nodes
    THEN Failure("BlockedEndpoint")
    ELSE LET a == AStarPath(g, start_node, end_node)
         IN  IF ~a.found THEN Failure("Exception")
             ELSE LET len == RouteLength(g, a.path, 1, 0)
                  IN  IF len.raised THEN Failure("Exception")
                      ELSE [outcome |-> "ok", route |-> a.path,
                            total_distance |-> len.total]

\* calculate_safe_route once start and end are snapped to start_node and
\* end_node
calculate_safe_route(g, start_node, end_node) ==
    IF start_node \notin DOMAIN g.nodes \/ end_node \notin DOMAIN g.nodes
    THEN Failure("BlockedEndpoint")
    ELSE LET a == AStarPath(g, start_node, end_node)
         IN  IF ~a.found THEN Failure("NoPath")
             ELSE LET len == RouteLength(g, a.path, 1, 0)
                  IN  IF len.raised THEN Failure("Exception")
                      ELSE [outcome |-> "ok", route |-> a.path,
                            total_distance |-> len.total]

\* mutant: the lookup raises when the nearest vertex is over 500 m away
Snaps_DistanceLimit(g, start_coord, end_coord) ==
    IF \/ DOMAIN g.nodes = {}
       \/ \A n \in DOMAIN g.nodes : Dist2(g.nodes[n], start_coord) > 500 * 500
       \/ \A n \in DOMAIN g.nodes : Dist2(g.nodes[n], end_coord) > 500 * 500
    THEN { <<0, 0>> }
    ELSE NearestNodes(g, start_coord) \X NearestNodes(g, end_coord)

\* the snapped pairs the nearest-vertex lookup can return on graph g; the
\* pair <<0, 0>> stands for the lookup raising (no vertex to return)
Snaps(g, start_coord, end_coord) ==
    IF DOMAIN g.nodes = {} THEN { <<0, 0>> }
    ELSE NearestNodes(g, start_coord) \X NearestNodes(g, end_coord)

-----------------------------------------------------------------------------
(* State *)

NoHazards == [given |-> FALSE, list |-> <<>>]

NoRequest == [location |-> None, network_type |-> None, danger_threshold |-> 0,
              start |-> <<0, 0>>, end |-> <<0, 0>>, hazards |-> NoHazards]

NoGraph == [nodes |-> EmptyDict, edges |-> {}, directed |-> TRUE]

NoStats == [edges_checked |-> 0, hazards_processed |-> 0]

NoResponse == [route_id |-> 0, status |-> None, total_distance |-> 0,
               waypoints |-> <<>>]

\* the locals of a route computation before it has assigned them
FreshLocals ==
    /\ dangerous_edges = <<>>
    /\ edge_hazard_levels = EmptyDict
    /\ stats = NoStats
    /\ safe_graph = NoGraph
    /\ removed_count = 0
    /\ nearest = <<0, 0>>
    /\ found = Failure(None)
    /\ response = NoResponse
    /\ hazards_shared = FALSE

-----------------------------------------------------------------------------
(* The core as a pipeline over drawn inputs: classify, prune, findRoute *)

CoreRequests ==
    { [location |-> "cm", network_type |-> "drive", danger_threshold |-> t,
       start |-> s, end |-> e, hazards |-> [given |-> TRUE, list |-> hs]] :
      t \in Thresholds, s \in Coordinates, e \in Coordinates, hs \in HazardLists }

InitCore ==
    /\ graph \in OsmGraphs
    /\ request \in CoreRequests
    /\ hazards = request.hazards.list
    /\ graph_cache = EmptyDict
    /\ hazard_zones = <<>>
    /\ route_cache = EmptyDict
    /\ started = TRUE
    /\ next_id = 1
    /\ pc = "classify"
    /\ FreshLocals

Classify ==
    /\ pc = "classify"
    /\ LET c == identify_dangerous_edges(graph, hazards, request.danger_threshold)
       IN  /\ dangerous_edges' = c.dangerous_edges
           /\ edge_hazard_levels' = c.edge_hazard_levels
           /\ stats' = c.stats
    /\ pc' = "prune"
    /\ UNCHANGED <<graph_cache, hazard_zones, route_cache, started, next_id,
                   request, graph, hazards, safe_graph, removed_count, nearest,
                   found, response,
                   hazards_shared>>

Prune ==
    /\ pc = "prune"
    /\ LET p == create_safe_graph(graph, dangerous_edges)
       IN  /\ safe_graph' = p.safe_graph
           /\ removed_count' = p.removed_count
           /\ graph' = CallerGraphAfterPrune(graph, p.safe_graph)
    /\ pc' = "route"
    /\ UNCHANGED <<graph_cache, hazard_zones, route_cache, started, next_id,
                   request, hazards, dangerous_edges, edge_hazard_levels, stats,
                   nearest, found, response,
                   hazards_shared>>

FindRoute ==
    /\ pc = "route"
    /\ \E sn \in Snaps(safe_graph, request.start, request.end) :
          /\ nearest' = sn
          /\ found' = IF sn[1] = 0 THEN Failure("Exception")
                      ELSE calculate_safe_route(safe_graph, sn[1], sn[2])
    /\ pc' = "done"
    /\ UNCHANGED <<graph_cache, hazard_zones, route_cache, started, next_id,
                   request, graph, hazards, dangerous_edges, edge_hazard_levels,
                   stats, safe_graph, removed_count, response,
                   hazards_shared>>

NextCore == Classify \/ Prune \/ FindRoute

SpecCore == InitCore /\ [][NextCore]_vars

\* the same pipeline with the endpoints held fixed, for the properties of
\* the classifier, which does not read them
InitClassify ==
    /\ InitCore
    /\ request.start = <<0, 0>>
    /\ request.end = <<200, 0>>

SpecClassify == InitClassify /\ [][NextCore]_vars

-----------------------------------------------------------------------------
(* The pipeline handed an undirected graph *)

\* undirected edge instances, each stored once with its end vertices in
\* ascending order
UndirectedEdgeUniverse ==
    { Edge(1, 2, 0, 120), Edge(1, 2, 1, 100), Edge(2, 3, 0, 100),
      Edge(1, 4, 0, 150), Edge(3, 4, 0, 150) }

\* a MultiGraph: graph.is_directed() is False
MkUndirected(es) == [MkGraph(es) EXCEPT !.directed = FALSE]

UndirectedGraphs ==
    { MkUndirected(es) :
        es \in {s \in SUBSET UndirectedEdgeUniverse : s # {} /\ WellKeyed(s)} }

InitUndirected ==
    /\ graph \in UndirectedGraphs
    /\ request \in CoreRequests
    /\ hazards = request.hazards.list
    /\ graph_cache = EmptyDict
    /\ hazard_zones = <<>>
    /\ route_cache = EmptyDict
    /\ started = TRUE
    /\ next_id = 1
    /\ pc = "classify"
    /\ FreshLocals

SpecUndirected == InitUndirected /\ [][NextCore]_vars

-----------------------------------------------------------------------------
(* create_safe_graph called directly with any list of edge identifiers *)

\* longest dangerous-edge list handed to create_safe_graph directly
MaxIds == 3

\* edge identifiers a caller may list: identifiers of edges of the universe
\* (present or not in the graph drawn) and one that addresses no edge at all
DrawnIds == { <<1, 2, 0>>, <<1, 2, 1>>, <<2, 3, 0>>, <<4, 3, 0>>, <<3, 1, 0>> }

InitPrune ==
    /\ graph \in OsmGraphs
    /\ dangerous_edges \in SeqsUpTo(DrawnIds, MaxIds)
    /\ request = [location |-> "cm", network_type |-> "drive",
                  danger_threshold |-> 3, start |-> <<0, 0>>, end |-> <<200, 0>>,
                  hazards |-> [given |-> TRUE, list |-> <<>>]]
    /\ hazards = <<>>
    /\ graph_cache = EmptyDict
    /\ hazard_zones = <<>>
    /\ route_cache = EmptyDict
    /\ started = TRUE
    /\ next_id = 1
    /\ pc = "prune"
    /\ edge_hazard_levels = EmptyDict
    /\ stats = NoStats
    /\ safe_graph = NoGraph
    /\ removed_count = 0
    /\ nearest = <<0, 0>>
    /\ found = Failure(None)
    /\ response = NoResponse
    /\ hazards_shared = FALSE

NextPrune == Prune \/ FindRoute

SpecPrune == InitPrune /\ [][NextPrune]_vars

-----------------------------------------------------------------------------
(* The service: startup hook and the POST /route handler *)

\* StorageService.initialize_default_hazards: hazard-1 lies on the modelled
\* network, hazard-2 and hazard-3 lie off it
DefaultHazards ==
    << Named(Hazard("hazard-1", <<100, 0>>, 5, 150), "Red Danger Zone"),
       Named(Hazard("hazard-2", <<606, 288>>, 5, 120), "Dark Red Zone"),
       Named(Hazard("hazard-3", <<1100, 610>>, 3, 100), "Orange Zone") >>

\* map data ox.graph_from_place returns for the resolvable place
ServiceGraphs ==
    { MkGraph({Edge(1, 2, 0, 120), Edge(2, 3, 0, 100)}),
      MkGraph({Edge(1, 2, 0, 120), Edge(2, 3, 0, 100), Edge(3, 2, 0, 100),
               Edge(1, 4, 0, 150), Edge(4, 3, 0, 150)}),
      MkGraph({Edge(1, 2, 0, 120), Edge(1, 2, 1, 100), Edge(2, 3, 0, 100)}),
      MkGraph(EdgeUniverse) }

ServiceRequests ==
    { [location |-> l, network_type |-> "drive", danger_threshold |-> t,
       start |-> se[1], end |-> se[2], hazards |-> h] :
      l \in {"cm", "nowhere"}, t \in {3, 5},
      se \in { << <<0, 0>>, <<200, 0>> >>, << <<200, 0>>, <<0, 0>> >> },
      h \in { NoHazards,
              [given |-> TRUE, list |-> <<>>],
              [given |-> TRUE, list |-> << Hazard(None, <<100, 0>>, 6, 1) >>],
              [given |-> TRUE, list |-> << Hazard(None, <<150, 60>>, 4, 59) >>],
              [given |-> TRUE,
               list |-> << Unnamed(Hazard(None, <<150, 60>>, 4, 59)) >>] } }

Init ==
    /\ graph_cache = EmptyDict
    /\ hazard_zones = <<>>
    /\ route_cache = EmptyDict
    /\ started = FALSE
    /\ next_id = 1
    /\ pc = "idle"
    /\ request = NoRequest
    /\ graph = NoGraph
    /\ hazards = <<>>
    /\ FreshLocals

\* self.hazard_zones.extend(default_hazards)
initialize_default_hazards(zones) == zones \o DefaultHazards

\* startup hook: storage_service.initialize_default_hazards()
Startup ==
    /\ ~started
    /\ started' = TRUE
    /\ hazard_zones' = initialize_default_hazards(hazard_zones)
    /\ UNCHANGED <<graph_cache, route_cache, next_id, pc, request, graph, hazards,
                   dangerous_edges, edge_hazard_levels, stats, safe_graph,
                   removed_count, nearest, found, response,
                   hazards_shared>>

\* cache_key = f"{location}_{network_type}"
CacheKey(req) == <<req.location, req.network_type>>

\* load_osm_graph: the graphs the call can return; none when the place does
\* not resolve and nothing is cached (HTTP 400)
load_osm_graph(cache, req) ==
    IF CacheKey(req) \in DOMAIN cache THEN { cache[CacheKey(req)] }
    ELSE IF req.location = "cm" THEN ServiceGraphs
    ELSE {}

\* `request.hazards` is None or empty: the handler takes the list that
\* get_all_hazards() returns, which is the store's own list object
UsesStoredList(req) == ~(req.hazards.given /\ req.hazards.list # <<>>)

\* hazards = request.hazards if request.hazards else get_all_hazards()
RequestHazards(req, stored) ==
    IF req.hazards.given /\ req.hazards.list # <<>> THEN req.hazards.list
    ELSE stored

\* waypoints: the route's vertices looked up in the graph handed to the core
Waypoints(g, route) == [i \in 1..Len(route) |-> g.nodes[route[i]]]

\* the handler's answer for an outcome of the core: HTTPException is
\* re-raised, any other exception becomes a status "error" body
StatusOf(outcome) ==
    CASE outcome = "ok" -> "success"
      [] outcome = "BlockedEndpoint" -> "http_400"
      [] outcome = "NoPath" -> "http_404"
      [] OTHER -> "error"

\* hazards_avoided = [h.name for h in hazards if h.level > danger_threshold]
hazards_avoided(hs, danger_threshold) ==
    LET above == SelectSeq(hs, LAMBDA h : h.level > danger_threshold)
    IN  [i \in 1..Len(above) |-> above[i].name]

\* RouteResponse(...) raises a validation error when hazards_avoided, a
\* List[str], holds a None
ResponseRejected(names) == InSeq(None, names)

\* map_service.create_route_map(...): the rendered page, a non-empty string
create_route_map(g, route, hs) == "map_html"

LoadFailed(req) ==
    /\ load_osm_graph(graph_cache, req) = {}
    /\ response' = [route_id |-> next_id, status |-> "http_400",
                    total_distance |-> 0, waypoints |-> <<>>]
    /\ graph' = NoGraph
    /\ hazards' = <<>>
    /\ dangerous_edges' = <<>>
    /\ edge_hazard_levels' = EmptyDict
    /\ stats' = NoStats
    /\ safe_graph' = NoGraph
    /\ removed_count' = 0
    /\ nearest' = <<0, 0>>
    /\ found' = Failure(None)
    /\ hazards_shared' = FALSE
    /\ UNCHANGED <<graph_cache, route_cache>>

Computed(req) ==
    \E g \in load_osm_graph(graph_cache, req) :
      LET hs == RequestHazards(req, hazard_zones)
          c  == identify_dangerous_edges(g, hs, req.danger_threshold)
          p  == create_safe_graph(g, c.dangerous_edges)
          g2 == CallerGraphAfterPrune(g, p.safe_graph)
      IN  \E sn \in Snaps(p.safe_graph, req.start, req.end) :
            LET f == IF sn[1] = 0 THEN Failure("Exception")
                     ELSE calculate_safe_route(p.safe_graph, sn[1], sn[2])
                ok == f.outcome = "ok"
                wp == IF ok THEN Waypoints(g2, f.route) ELSE <<>>
                rejected == ok /\ ResponseRejected(hazards_avoided(hs, req.danger_threshold))
            IN  /\ graph_cache' = DictPut(graph_cache, CacheKey(req), g2)
                /\ graph' = g2
                /\ hazards' = hs
                /\ hazards_shared' = UsesStoredList(req)
                /\ dangerous_edges' = c.dangerous_edges
                /\ edge_hazard_levels' = c.edge_hazard_levels
                /\ stats' = c.stats
                /\ safe_graph' = p.safe_graph
                /\ removed_count' = p.removed_count
                /\ nearest' = sn
                /\ found' = f
                /\ route_cache' =
                      IF ok
                      THEN DictPut(route_cache, next_id,
                             [route |-> f.route, waypoints |-> wp,
                              map_html |-> create_route_map(g2, f.route, hs),
                              hazards |-> hs,
                              total_edges |-> Cardinality(g2.edges),
                              dangerous_edges_removed |-> p.removed_count])
                      ELSE route_cache
                /\ response' =
                      IF rejected
                      THEN [route_id |-> next_id, status |-> "error",
                            total_distance |-> 0, waypoints |-> <<>>]
                      ELSE [route_id |-> next_id, status |-> StatusOf(f.outcome),
                            total_distance |-> f.total_distance, waypoints |-> wp]

\* POST /route: calculate_route(request), run to completion
CalculateRoute ==
    /\ started
    /\ next_id <= MaxRoutes
    /\ \E req \in ServiceRequests :
          /\ request' = req
          /\ LoadFailed(req) \/ Computed(req)
    /\ next_id' = next_id + 1
    /\ pc' = "done"
    /\ UNCHANGED <<hazard_zones, started>>

Next == Startup \/ CalculateRoute

Spec == Init /\ [][Next]_vars

-----------------------------------------------------------------------------
(* The service with the handlers that read the route cache *)

\* route ids a client asks for: those handed out and one never handed out
RouteIds == 1..(MaxRoutes + 1)

\* an Optional result: a value, or None
Some(x) == [some |-> TRUE, val |-> x]

Nothing == [some |-> FALSE]

\* StorageService.get_cached_route: self.route_cache.get(route_id)
get_cached_route(cache, route_id) ==
    IF route_id \in DOMAIN cache THEN Some(cache[route_id]) ELSE Nothing

\* StorageService.get_route_map_html
get_route_map_html(cache, route_id) ==
    LET route_data == get_cached_route(cache, route_id)
    IN  IF route_data.some THEN Some(route_data.val.map_html) ELSE Nothing

\* StorageService.get_route_stats
get_route_stats(cache, route_id) ==
    LET route_data == get_cached_route(cache, route_id)
    IN  IF route_data.some
        THEN Some([total_edges |-> route_data.val.total_edges,
                   dangerous_edges_removed |-> route_data.val.dangerous_edges_removed])
        ELSE Nothing

NotFound(route_id) ==
    [route_id |-> route_id, status |-> "http_404", detail |-> "Route not found"]

\* GET /map/{route_id}
GetRouteMap ==
    /\ started
    /\ \E route_id \in RouteIds :
          LET map_html == get_route_map_html(route_cache, route_id)
          IN  response' = IF ~map_html.some \/ map_html.val = ""
                          THEN NotFound(route_id)
                          ELSE [route_id |-> route_id, status |-> "ok",
                                content |-> map_html.val]
    /\ pc' = "get_route_map"
    /\ UNCHANGED <<graph_cache, hazard_zones, route_cache, started, next_id,
                   request, graph, hazards, dangerous_edges, edge_hazard_levels,
                   stats, safe_graph, removed_count, nearest, found,
                   hazards_shared>>

\* GET /route/{route_id}/stats
GetRouteStats ==
    /\ started
    /\ \E route_id \in RouteIds :
          LET route_stats == get_route_stats(route_cache, route_id)
          IN  response' = IF ~route_stats.some
                          THEN NotFound(route_id)
                          ELSE [route_id |-> route_id, status |-> "ok",
                                content |-> route_stats.val]
    /\ pc' = "get_route_stats"
    /\ UNCHANGED <<graph_cache, hazard_zones, route_cache, started, next_id,
                   request, graph, hazards, dangerous_edges, edge_hazard_levels,
                   stats, safe_graph, removed_count, nearest, found,
                   hazards_shared>>

NextCache == Startup \/ CalculateRoute \/ GetRouteMap \/ GetRouteStats

SpecCache == Init /\ [][NextCache]_vars

-----------------------------------------------------------------------------
(* The hazard store: StorageService's hazard operations and their handlers *)

\* most zones the store is let to hold
MaxZones == 4

\* uuid4() identifiers handed to posted zones
MaxUuids == 2

\* the stream of str(uuid.uuid4()) values: distinct from one another and from
\* every identifier a client writes
Uuids == << "uuid-1", "uuid-2", "uuid-3", "uuid-4", "uuid-5", "uuid-6" >>

uuid4(n) == Uuids[n]

\* zones a client posts: without identifier, with the empty identifier, with
\* the identifier of a default zone, with an identifier of its own
PostedHazards ==
    { Hazard(id, <<100, 0>>, level, 50) :
        id \in {None, "", "hazard-1", "zone-a"}, level \in {2, 7} }

\* identifiers a client asks to delete
DeletedIds == { "hazard-1", "hazard-3", "zone-a", "uuid-1", "zone-b" }

\* `not hazard.id`: the identifier is absent or empty
NoId(hazard) == hazard.id = None \/ hazard.id = ""

\* StorageService.add_hazard(hazard) when uuid4() would return uuid4(n):
\* the store afterwards and the zone returned (created_at is not modelled)
add_hazard(zones, hazard, n) ==
    LET h == IF NoId(hazard) THEN [hazard EXCEPT !.id = uuid4(n)] ELSE hazard
    IN  [hazard_zones |-> Append(SelectSeq(zones, LAMBDA z : z.id # h.id), h),
         result |-> h]

\* mutant: delete_hazard reports a deletion whatever the store held
delete_hazard_AlwaysTrue(zones, hazard_id) ==
    [hazard_zones |-> SelectSeq(zones, LAMBDA h : h.id # hazard_id),
     result |-> TRUE]

\* StorageService.delete_hazard(hazard_id): the store afterwards and the
\* boolean returned
delete_hazard(zones, hazard_id) ==
    LET kept == SelectSeq(zones, LAMBDA h : h.id # hazard_id)
    IN  [hazard_zones |-> kept, result |-> Len(kept) # Len(zones)]

\* StorageService.get_all_hazards(): return self.hazard_zones
get_all_hazards(zones) == zones

\* a list handed out earlier, after self.hazard_zones.extend(...) changed
\* the store's list in place: the holder of that same object sees the change
HandedListAfterExtend(handed, shared, zones) == IF shared THEN zones ELSE handed

\* a list handed out earlier, after add_hazard or delete_hazard: both build
\* a new list and rebind self.hazard_zones to it, and add_hazard appends to
\* the new list, so the object handed out is as it was
HandedListAfterRebind(handed, zones) == handed

InitStore == Init

\* StorageService.initialize_default_hazards(), callable on any store
InitializeDefaultHazards ==
    /\ Len(hazard_zones) + Len(DefaultHazards) <= MaxZones
    /\ hazard_zones' = initialize_default_hazards(hazard_zones)
    /\ hazards' = HandedListAfterExtend(hazards, hazards_shared, hazard_zones')
    /\ pc' = "initialize_default_hazards"
    /\ request' = NoRequest
    /\ response' = NoResponse
    /\ UNCHANGED <<graph_cache, route_cache, started, next_id, graph,
                   dangerous_edges, edge_hazard_levels, stats, safe_graph,
                   removed_count, nearest, found, hazards_shared>>

\* POST /hazards
AddHazard ==
    /\ \E hazard \in PostedHazards :
          LET a == add_hazard(hazard_zones, hazard, next_id)
          IN  /\ NoId(hazard) => next_id <= MaxUuids
              /\ Len(a.hazard_zones) <= MaxZones
              /\ hazard_zones' = a.hazard_zones
              /\ hazards' = HandedListAfterRebind(hazards, a.hazard_zones)
              /\ next_id' = IF NoId(hazard) THEN next_id + 1 ELSE next_id
              /\ request' = [hazard |-> hazard]
              /\ response' = [status |-> "ok", hazard |-> a.result]
    /\ hazards_shared' = FALSE
    /\ pc' = "add_hazard"
    /\ UNCHANGED <<graph_cache, route_cache, started, graph,
                   dangerous_edges, edge_hazard_levels, stats, safe_graph,
                   removed_count, nearest, found>>

\* DELETE /hazards/{hazard_id}
DeleteHazard ==
    /\ \E hazard_id \in DeletedIds :
          LET d == delete_hazard(hazard_zones, hazard_id)
          IN  /\ hazard_zones' = d.hazard_zones
              /\ hazards' = HandedListAfterRebind(hazards, d.hazard_zones)
              /\ request' = [hazard_id |-> hazard_id]
              /\ response' =
                    IF d.result
                    THEN [status |-> "ok", detail |-> "deleted"]
                    ELSE [status |-> "http_404", detail |-> "Hazard zone not found"]
    /\ hazards_shared' = FALSE
    /\ pc' = "delete_hazard"
    /\ UNCHANGED <<graph_cache, route_cache, started, next_id, graph,
                   dangerous_edges, edge_hazard_levels, stats, safe_graph,
                   removed_count, nearest, found>>

NextStore == InitializeDefaultHazards \/ AddHazard \/ DeleteHazard

SpecStore == InitStore /\ [][NextStore]_vars

-----------------------------------------------------------------------------
(* The hazard store while a route computation holds its list *)

\* a route computation whose request carries no list takes the stored list
\* (routes/routing.py: hazards = ... storage_service.get_all_hazards())
TakeStoredHazards ==
    /\ hazards' = get_all_hazards(hazard_zones)
    /\ hazards_shared' = TRUE
    /\ pc' = "get_all_hazards"
    /\ request' = NoRequest
    /\ response' = NoResponse
    /\ UNCHANGED <<graph_cache, hazard_zones, route_cache, started, next_id,
                   graph, dangerous_edges, edge_hazard_levels, stats,
                   safe_graph, removed_count, nearest, found>>

NextHanded == NextStore \/ TakeStoredHazards

SpecHanded == InitStore /\ [][NextHanded]_vars

-----------------------------------------------------------------------------
(* Vocabulary of the properties *)

SeqSet(q) == { q[i] : i \in 1..Len(q) }

NoDuplicates(q) == \A i, j \in 1..Len(q) : i # j => q[i] # q[j]

\* hazard h reaches edge id of g: one of the two end vertices or the
\* arithmetic-mean midpoint lies within the radius (squared distances)
Reaches(g, h, id) ==
    LET pu == g.nodes[id[1]]
        pv == g.nodes[id[2]]
        rr == h.radius_m * h.radius_m
    IN  \/ Dist2(h.pos, pu) <= rr
        \/ Dist2(h.pos, pv) <= rr
        \/ Dist2(<<2 * h.pos[1], 2 * h.pos[2]>>,
                 <<pu[1] + pv[1], pu[2] + pv[2]>>) <= 4 * rr

\* the above-threshold hazards of list hs that reach edge id
Blocking(g, hs, t, id) ==
    { i \in 1..Len(hs) : hs[i].level > t /\ Reaches(g, hs[i], id) }

AllEdgeIds(g) == { EdgeId(e) : e \in g.edges }

RECURSIVE ReachableFrom(_, _)
\* vertices reachable from the set seen along directed edges of g
ReachableFrom(g, seen) ==
    LET more == { e.v : e \in { x \in g.edges : x.u \in seen } } \ seen
    IN  IF more = {} THEN seen ELSE ReachableFrom(g, seen \cup more)

Connected(g, s, t) == t \in ReachableFrom(g, {s})

Classified == pc \in {"prune", "route", "done"}

\* classify has just returned
JustClassified == pc = "prune"

Pruned == pc \in {"route", "done"}

Routed == pc = "done" /\ graph # NoGraph

-----------------------------------------------------------------------------
(* C1 *)

\* C1: when the route computation succeeds, every consecutive vertex pair
\* of the route is joined by an edge of the pruned graph and no edge of the
\* pruned graph is in the request's dangerous-edge list; when the snapped
\* end vertex cannot be reached in the pruned graph the computation ends in
\* an error outcome.
C1_RouteUsesOnlySafeEdges ==
    Routed =>
      /\ found.outcome = "ok" =>
            /\ Len(found.route) >= 1
            /\ found.route[1] = nearest[1]
            /\ found.route[Len(found.route)] = nearest[2]
            /\ \A i \in 1..(Len(found.route) - 1) :
                  \E e \in safe_graph.edges :
                     /\ e.u = found.route[i] /\ e.v = found.route[i + 1]
                     /\ EdgeId(e) \notin SeqSet(dangerous_edges)
                     /\ e \in graph.edges
            /\ \A e \in safe_graph.edges : EdgeId(e) \notin SeqSet(dangerous_edges)
      /\ (nearest[1] = 0 \/ ~Connected(safe_graph, nearest[1], nearest[2]))
            => found.outcome \in {"BlockedEndpoint", "NoPath", "Exception"}

\* a successful route of two or more vertices found after pruning removed
\* at least one edge
C1_Witness ==
    /\ Routed /\ found.outcome = "ok"
    /\ Len(found.route) >= 3
    /\ removed_count > 0

-----------------------------------------------------------------------------
(* C2 *)

\* C2: the dangerous-edge list holds, once each, exactly the directed edge
\* ids reached by some hazard whose level exceeds the threshold.
C2_DangerousExact ==
    Classified =>
      /\ SeqSet(dangerous_edges) =
            { id \in AllEdgeIds(graph) :
                Blocking(graph, hazards, request.danger_threshold, id) # {} }
      /\ NoDuplicates(dangerous_edges)

\* an edge flagged through its midpoint alone, next to an edge not flagged
C2_Witness ==
    /\ Classified
    /\ \E id \in SeqSet(dangerous_edges) : \E i \in 1..Len(hazards) :
          /\ hazards[i].level > request.danger_threshold
          /\ Reaches(graph, hazards[i], id)
          /\ Dist2(hazards[i].pos, graph.nodes[id[1]]) >
                hazards[i].radius_m * hazards[i].radius_m
          /\ Dist2(hazards[i].pos, graph.nodes[id[2]]) >
                hazards[i].radius_m * hazards[i].radius_m
    /\ SeqSet(dangerous_edges) # AllEdgeIds(graph)
    /\ Len(hazards) = 2

-----------------------------------------------------------------------------
(* C3 *)

AboveOnly(hs, t) == SelectSeq(hs, LAMBDA h : h.level > t)

InsertAt(q, i, x) == SubSeq(q, 1, i - 1) \o <<x>> \o SubSeq(q, i, Len(q))

\* C3: hazards at or below the threshold contribute nothing: dropping them
\* all from the list, or inserting one more anywhere in it, leaves the
\* dangerous list and the level map as they are, no below-threshold hazard
\* is the only one reaching a listed edge, and raising the threshold never
\* adds a dangerous edge.
C3_BelowThresholdInert ==
    JustClassified =>
      LET t == request.danger_threshold
          without == identify_dangerous_edges(graph, AboveOnly(hazards, t), t)
      IN  /\ without.dangerous_edges = dangerous_edges
          /\ without.edge_hazard_levels = edge_hazard_levels
          /\ \A h \in { x \in HazardUniverse : x.level <= t } :
                \A i \in 1..(Len(hazards) + 1) :
                  LET with == identify_dangerous_edges(graph, InsertAt(hazards, i, h), t)
                  IN  /\ with.dangerous_edges = dangerous_edges
                      /\ with.edge_hazard_levels = edge_hazard_levels
          /\ \A id \in SeqSet(dangerous_edges) \cup DOMAIN edge_hazard_levels :
                \E i \in 1..Len(hazards) :
                  hazards[i].level > t /\ Reaches(graph, hazards[i], id)
          /\ \A t2 \in { x \in 1..10 : x >= t } :
                SeqSet(identify_dangerous_edges(graph, hazards, t2).dangerous_edges)
                  \subseteq SeqSet(dangerous_edges)

\* a hazard whose level equals the threshold reaches an edge that stays
\* unlisted, while another hazard lists an edge
C3_Witness ==
    /\ Classified
    /\ dangerous_edges # <<>>
    /\ \E i \in 1..Len(hazards) : \E id \in AllEdgeIds(graph) :
          /\ hazards[i].level = request.danger_threshold
          /\ Reaches(graph, hazards[i], id)
          /\ id \notin SeqSet(dangerous_edges)
          /\ id \notin DOMAIN edge_hazard_levels

-----------------------------------------------------------------------------
(* C4 *)

RECURSIVE MaxOf(_)
MaxOf(S) ==
    LET x == CHOOSE y \in S : TRUE
    IN  IF S = {x} THEN x ELSE Max2(x, MaxOf(S \ {x}))

Reorderings(q) ==
    { [i \in 1..Len(q) |-> q[f[i]]] :
        f \in { g \in [1..Len(q) -> 1..Len(q)] :
                  \A i, j \in 1..Len(q) : i # j => g[i] # g[j] } }

\* merge of two classify results: levels by max, dangerous sets by union
MergeLevels(a, b) ==
    [id \in (DOMAIN a) \cup (DOMAIN b) |->
        Max2(DictGet(a, id, 0), DictGet(b, id, 0))]

\* C4: edgeLevels[e] is the greatest level among the above-threshold hazards
\* reaching e (and e has an entry exactly when there is one); the level map
\* and the dangerous set are the same for every permutation of the hazard
\* list and for every split of it into two groups merged by max and union.
C4_LevelsAreMaxAnyOrder ==
    JustClassified =>
      LET t == request.danger_threshold
      IN  /\ DOMAIN edge_hazard_levels =
                { id \in AllEdgeIds(graph) : Blocking(graph, hazards, t, id) # {} }
          /\ \A id \in DOMAIN edge_hazard_levels :
                edge_hazard_levels[id] =
                  MaxOf({ hazards[i].level : i \in Blocking(graph, hazards, t, id) })
          /\ \A q \in Reorderings(hazards) :
                LET r == identify_dangerous_edges(graph, q, t)
                IN  /\ r.edge_hazard_levels = edge_hazard_levels
                    /\ SeqSet(r.dangerous_edges) = SeqSet(dangerous_edges)
                    /\ \A k \in 0..Len(q) :
                          LET a == identify_dangerous_edges(graph, SubSeq(q, 1, k), t)
                              b == identify_dangerous_edges(graph, SubSeq(q, k + 1, Len(q)), t)
                          IN  /\ MergeLevels(a.edge_hazard_levels, b.edge_hazard_levels)
                                   = edge_hazard_levels
                              /\ SeqSet(a.dangerous_edges) \cup SeqSet(b.dangerous_edges)
                                   = SeqSet(dangerous_edges)

\* Scenario D: hazards of levels 7 and then 4 both reach one edge, whose
\* recorded level is 7
C4_Witness ==
    /\ Classified
    /\ request.danger_threshold = 3
    /\ Len(hazards) = 2
    /\ hazards[1].level = 7 /\ hazards[2].level = 4
    /\ \E id \in DOMAIN edge_hazard_levels :
          /\ Blocking(graph, hazards, 3, id) = {1, 2}
          /\ edge_hazard_levels[id] = 7

-----------------------------------------------------------------------------
(* C5 *)

-----------------------------------------------------------------------------
(* C6 *)

\* C6: every vertex of the graph returned by prune has an incident edge
\* (incoming or outgoing) in that graph.
C6_NoIsolatedVertexSurvives ==
    Pruned =>
      \A n \in DOMAIN safe_graph.nodes :
        \E e \in safe_graph.edges : e.u = n \/ e.v = n

\* pruning stranded a vertex and dropped it while other vertices remain
C6_Witness ==
    /\ pc = "route"
    /\ DOMAIN safe_graph.nodes # {}
    /\ DOMAIN safe_graph.nodes # DOMAIN graph.nodes
    /\ removed_count > 0

-----------------------------------------------------------------------------
(* C7 *)

\* the vertex of the graph handed to the core that is nearest to the start
\* or to the end coordinate is gone from the pruned graph
NearestWasPruned ==
    \E n \in NearestNodes(graph, request.start) \cup NearestNodes(graph, request.end) :
        n \notin DOMAIN safe_graph.nodes

\* C7: findRoute fails with BlockedEndpointError whenever the vertex nearest
\* to the start or to the end coordinate was removed by pruning.
C7_BlockedWhenNearestPruned ==
    (Routed /\ NearestWasPruned) => found.outcome = "BlockedEndpoint"

-----------------------------------------------------------------------------
(* C8 *)

\* Scenario A: the line P1 -> P2 -> P3, one hazard of level 6 centred on P2
\* whose radius reaches P2 only, threshold 3, route asked from P1 to P3
ScenarioA ==
    /\ graph = MkGraph({Edge(1, 2, 0, 120), Edge(2, 3, 0, 100)})
    /\ hazards = << Hazard(None, <<100, 0>>, 6, 1) >>
    /\ request.danger_threshold = 3
    /\ request.start = <<0, 0>>
    /\ request.end = <<200, 0>>

\* C8: in Scenario A classify flags both P1-P2 and P2-P3, and prune followed
\* by findRoute(P1, P3) ends in the NoPathError outcome and no other.
C8_ScenarioAEndsInNoPath ==
    ScenarioA =>
      /\ Classified => SeqSet(dangerous_edges) = { <<1, 2, 0>>, <<2, 3, 0>> }
      /\ pc = "done" => found.outcome = "NoPath"

-----------------------------------------------------------------------------
(* C9 *)

\* C9: when both snapped vertices are in the pruned graph and no directed
\* path leads from the start vertex to the end vertex, findRoute fails with
\* NoPathError and returns no route.
C9_DisconnectedGivesNoPath ==
    ( /\ Routed
      /\ nearest[1] \in DOMAIN safe_graph.nodes
      /\ nearest[2] \in DOMAIN safe_graph.nodes
      /\ ~Connected(safe_graph, nearest[1], nearest[2]) )
    => (found.outcome = "NoPath" /\ found.route = <<>>)

\* both snapped vertices survive pruning, which cut the only way between
\* them
C9_Witness ==
    /\ Routed
    /\ nearest[1] \in DOMAIN safe_graph.nodes
    /\ nearest[2] \in DOMAIN safe_graph.nodes
    /\ nearest[1] # nearest[2]
    /\ ~Connected(safe_graph, nearest[1], nearest[2])
    /\ Connected(graph, nearest[1], nearest[2])
    /\ found.outcome = "NoPath"

-----------------------------------------------------------------------------
(* C10 *)

RECURSIVE TraversedLength(_, _, _)
\* length of the walk the search took along route from index i: between two
\* vertices it goes by the shortest of the parallel edges joining them
TraversedLength(g, route, i) ==
    IF i >= Len(route) THEN 0
    ELSE MinLength({ e \in g.edges : e.u = route[i] /\ e.v = route[i + 1] })
         + TraversedLength(g, route, i + 1)

\* C10: on success the reported total length is the sum of the lengths of
\* the edges the route traverses in the pruned graph, parallel edges of
\* different lengths included.
C10_TotalIsTraversedLength ==
    (Routed /\ found.outcome = "ok") =>
        found.total_distance = TraversedLength(safe_graph, found.route, 1)

-----------------------------------------------------------------------------
(* C11 *)

\* the directed paths of g from s to t that repeat no vertex
SimplePaths(g, s, t) ==
    { p \in SeqsUpTo(DOMAIN g.nodes, Cardinality(DOMAIN g.nodes)) :
        /\ Len(p) >= 1
        /\ p[1] = s /\ p[Len(p)] = t
        /\ NoDuplicates(p)
        /\ \A i \in 1..(Len(p) - 1) :
              \E e \in g.edges : e.u = p[i] /\ e.v = p[i + 1] }

\* the straight-line estimate (kilometres) never exceeds the length (metres)
\* of any path of g from a vertex to t
Admissible(g, t) ==
    \A n \in DOMAIN g.nodes : \A p \in SimplePaths(g, n, t) :
        Geodesic(g.nodes[n], g.nodes[t]) <= 1000 * TraversedLength(g, p, 1)

\* C11: when findRoute succeeds and the heuristic is admissible, the route is
\* a path of the pruned graph from the snapped start to the snapped end and
\* no directed path between them has a smaller total edge length.
C11_RouteIsShortest ==
    (Routed /\ found.outcome = "ok" /\ Admissible(safe_graph, nearest[2])) =>
        /\ found.route \in SimplePaths(safe_graph, nearest[1], nearest[2])
        /\ \A p \in SimplePaths(safe_graph, nearest[1], nearest[2]) :
              TraversedLength(safe_graph, found.route, 1)
                <= TraversedLength(safe_graph, p, 1)

\* the route found is strictly shorter than another path of the pruned
\* graph between the same two vertices
C11_Witness ==
    /\ Routed /\ found.outcome = "ok"
    /\ Admissible(safe_graph, nearest[2])
    /\ \E p \in SimplePaths(safe_graph, nearest[1], nearest[2]) :
          TraversedLength(safe_graph, p, 1)
            > TraversedLength(safe_graph, found.route, 1)

-----------------------------------------------------------------------------
(* C12 *)

\* the hazard list the request's classification is meant to use
IntendedHazards ==
    IF request.hazards.given THEN request.hazards.list ELSE hazard_zones

\* C12: a route request that carries a hazard list, the empty list included,
\* is classified with exactly that list and nothing from the stored set; a
\* request that carries none is classified with the stored set.
C12_RequestListReplacesStore ==
    (pc = "done" /\ graph # NoGraph) =>
        /\ hazards = IntendedHazards
        /\ dangerous_edges =
              identify_dangerous_edges(graph, IntendedHazards,
                                       request.danger_threshold).dangerous_edges

-----------------------------------------------------------------------------
(* C13 *)

\* C13: prune applied with list D to the graph that prune returned for D
\* removes zero edges and returns a graph with the same vertices and edges.
C13_PruneIdempotent ==
    Pruned =>
      LET again == create_safe_graph(safe_graph, dangerous_edges)
      IN  /\ again.removed_count = 0
          /\ DOMAIN again.safe_graph.nodes = DOMAIN safe_graph.nodes
          /\ again.safe_graph.edges = safe_graph.edges
          /\ again.safe_graph = safe_graph

\* the first application removed edges and dropped a vertex and left a
\* graph that still has edges
C13_Witness ==
    /\ pc = "route"
    /\ removed_count > 0
    /\ DOMAIN safe_graph.nodes # DOMAIN graph.nodes
    /\ safe_graph.edges # {}
    /\ Len(dangerous_edges) = MaxIds

-----------------------------------------------------------------------------
(* C14 *)

\* C14: removedCount is the number of edges of the input graph missing from
\* the output graph, which is the number of distinct listed identifiers that
\* address an edge of the input graph; repeated identifiers and identifiers
\* addressing no edge are not counted, so removedCount <= len(dangerousEdgeIds).
C14_RemovedCountExact ==
    Pruned =>
      /\ removed_count = Cardinality(graph.edges \ safe_graph.edges)
      /\ removed_count = Cardinality(SeqSet(dangerous_edges) \cap AllEdgeIds(graph))
      /\ removed_count <= Len(dangerous_edges)
      /\ \A e \in graph.edges :
            e \in safe_graph.edges <=> EdgeId(e) \notin SeqSet(dangerous_edges)

\* a list holding one identifier twice and an identifier that addresses no
\* edge of the graph: one edge removed for three identifiers
C14_Witness ==
    /\ pc = "route"
    /\ Len(dangerous_edges) = 3
    /\ ~NoDuplicates(dangerous_edges)
    /\ SeqSet(dangerous_edges) \ AllEdgeIds(graph) # {}
    /\ removed_count = 1

-----------------------------------------------------------------------------
(* C15 *)

\* vertex n of g is at least distance from coord among the vertices of g
IsNearest(g, n, coord) ==
    /\ n \in DOMAIN g.nodes
    /\ \A m \in DOMAIN g.nodes : Dist2(g.nodes[n], coord) <= Dist2(g.nodes[m], coord)

\* coord lies more than 500 m from every vertex of the network
FarAway(coord) ==
    \A n \in DOMAIN NodePos : Dist2(NodePos[n], coord) > 500 * 500

\* C15: whatever the distance of the start and end coordinates from the
\* vertices, findRoute on a graph that has a vertex snaps each coordinate to a
\* nearest vertex of that graph and ends in a route or in NoPath, by
\* reachability alone; it fails otherwise only when pruning left no vertex to
\* snap to.
C15_FarEndpointsStillSnap ==
    Routed =>
      /\ DOMAIN safe_graph.nodes # {} =>
            /\ IsNearest(safe_graph, nearest[1], request.start)
            /\ IsNearest(safe_graph, nearest[2], request.end)
            /\ found.outcome \in {"ok", "NoPath"}
            /\ found.outcome = "ok" <=> Connected(safe_graph, nearest[1], nearest[2])
      /\ found.outcome \notin {"ok", "NoPath"} =>
            /\ DOMAIN safe_graph.nodes = {}
            /\ found.outcome = "Exception"

\* Scenario C: a start coordinate far outside the network snaps to P1 and a
\* route of several vertices is returned
C15_Witness ==
    /\ Routed
    /\ FarAway(request.start)
    /\ nearest[1] = 1
    /\ found.outcome = "ok"
    /\ Len(found.route) >= 3

-----------------------------------------------------------------------------
(* C16 *)

StoredIds == [i \in 1..Len(hazard_zones) |-> hazard_zones[i].id]

\* C16: in every state the store reaches through initialize_default_hazards,
\* add_hazard and delete_hazard, no two stored zones share an identifier and
\* no stored zone has an absent or empty identifier.
C16_StoredIdsUniqueNonEmpty ==
    /\ NoDuplicates(StoredIds)
    /\ \A i \in 1..Len(hazard_zones) : hazard_zones[i].id \notin {None, ""}

-----------------------------------------------------------------------------
(* C17 *)

\* C17: the graph prune returns is a subgraph of its input: its vertices
\* and its edges (with key and length) are among the input's, each vertex
\* keeps its coordinate, and every vertex of a route found on it can be
\* looked up in the input graph.
C17_PrunedIsSubgraph ==
    Pruned =>
      /\ DOMAIN safe_graph.nodes \subseteq DOMAIN graph.nodes
      /\ \A n \in DOMAIN safe_graph.nodes : safe_graph.nodes[n] = graph.nodes[n]
      /\ safe_graph.edges \subseteq graph.edges
      /\ safe_graph.directed = graph.directed
      /\ (pc = "done" /\ found.outcome = "ok") =>
            /\ \A i \in 1..Len(found.route) : found.route[i] \in DOMAIN graph.nodes
            /\ Waypoints(graph, found.route) = Waypoints(safe_graph, found.route)

\* a route of three vertices found on a graph that lost an edge and a vertex
C17_Witness ==
    /\ pc = "done" /\ found.outcome = "ok"
    /\ Len(found.route) = 3
    /\ removed_count > 0
    /\ DOMAIN safe_graph.nodes # DOMAIN graph.nodes

-----------------------------------------------------------------------------
(* C18 *)

\* the undirected graph g read as a directed one: one directed edge each way
Expanded(g) ==
    [nodes |-> g.nodes,
     edges |-> UNION { { e, [e EXCEPT !.u = e.v, !.v = e.u] } : e \in g.edges },
     directed |-> TRUE]

Reverse(id) == <<id[2], id[1], id[3]>>

\* C18: on an undirected graph classify scans both directed edges of every
\* undirected edge and flags (u,v,key) together with (v,u,key); the pruned
\* graph, read both ways, is what pruning the expanded directed graph gives,
\* so that no flagged edge can be traversed in either direction by findRoute.
C18_UndirectedAsExpanded ==
    /\ Classified =>
          /\ stats.edges_checked =
                2 * Cardinality(graph.edges) * stats.hazards_processed
          /\ \A id \in SeqSet(dangerous_edges) : Reverse(id) \in SeqSet(dangerous_edges)
          /\ SeqSet(dangerous_edges) =
                { id \in AllEdgeIds(Expanded(graph)) :
                    Blocking(graph, hazards, request.danger_threshold, id) # {} }
    /\ Pruned =>
          /\ Expanded(safe_graph) =
                create_safe_graph(Expanded(graph), dangerous_edges).safe_graph
          /\ \A e \in safe_graph.edges :
                /\ EdgeId(e) \notin SeqSet(dangerous_edges)
                /\ Reverse(EdgeId(e)) \notin SeqSet(dangerous_edges)
    /\ (Routed /\ found.outcome = "ok") =>
          \A i \in 1..(Len(found.route) - 1) :
            \E e \in Expanded(safe_graph).edges :
               /\ e.u = found.route[i] /\ e.v = found.route[i + 1]
               /\ EdgeId(e) \notin SeqSet(dangerous_edges)
    /\ (Routed /\ nearest[1] # 0) =>
          found = calculate_safe_route(Expanded(safe_graph), nearest[1], nearest[2])

\* on an undirected graph with flagged edges a route is found that goes
\* from P3 to P1, against the direction the edges are stored in
C18_Witness ==
    /\ Routed /\ ~graph.directed
    /\ dangerous_edges # <<>>
    /\ removed_count > 0
    /\ found.outcome = "ok"
    /\ Len(found.route) = 3
    /\ found.route[1] = 3 /\ found.route[3] = 1

-----------------------------------------------------------------------------
(* C19 *)

\* C19: a /route request adds the route cache entry of its route id exactly
\* when it completes with status success, and otherwise leaves the cache as
\* it is; no step removes or changes an entry; GET /map/{id} and
\* GET /route/{id}/stats answer 404 for an id that has no entry.
C19_CacheEntryIffSuccess ==
    /\ [][ next_id' = next_id + 1 =>
             IF response'.status = "success"
             THEN /\ DOMAIN route_cache' = DOMAIN route_cache \cup {response'.route_id}
                  /\ response'.route_id \notin DOMAIN route_cache
             ELSE route_cache' = route_cache ]_vars
    /\ [][ \A k \in DOMAIN route_cache :
             k \in DOMAIN route_cache' /\ route_cache'[k] = route_cache[k] ]_vars
    /\ [][ pc' \in {"get_route_map", "get_route_stats"} =>
             (response'.route_id \notin DOMAIN route_cache
                => response'.status = "http_404") ]_vars

-----------------------------------------------------------------------------
(* C20 *)

RECURSIVE Without(_, _)
\* sequence q with the zones identified id dropped, the rest in order
Without(q, id) ==
    IF q = <<>> THEN <<>>
    ELSE IF Head(q).id = id THEN Without(Tail(q), id)
    ELSE <<Head(q)>> \o Without(Tail(q), id)

\* C20: delete_hazard(id) for an identifier not in the store answers 404
\* 'Hazard zone not found' and leaves the stored sequence as it is; for an
\* identifier in the store it succeeds and removes exactly the zones so
\* identified, the other zones staying in their order.
C20_DeleteRemovesExactlyId ==
    [][ pc' = "delete_hazard" =>
          LET id == request'.hazard_id
          IN  IF \E i \in 1..Len(hazard_zones) : hazard_zones[i].id = id
              THEN /\ response'.status = "ok"
                   /\ hazard_zones' = Without(hazard_zones, id)
                   /\ Len(hazard_zones') < Len(hazard_zones)
                   /\ \A i \in 1..Len(hazard_zones') : hazard_zones'[i].id # id
              ELSE /\ response' = [status |-> "http_404",
                                   detail |-> "Hazard zone not found"]
                   /\ hazard_zones' = hazard_zones ]_vars

\* the deletion of a client's zone has just been answered, the store keeping
\* a default zone before the place it took and a zone after it
C20_Witness ==
    /\ pc = "delete_hazard"
    /\ response.status = "ok"
    /\ request.hazard_id = "zone-a"
    /\ Len(hazard_zones) = 3
    /\ hazard_zones[1].id = "hazard-2"
    /\ hazard_zones[2].id = "hazard-3"
    /\ hazard_zones[3].id = "uuid-1"

-----------------------------------------------------------------------------
(* C21 *)

\* C21: add_hazard of a zone whose identifier is in the store replaces the
\* zone: the store keeps its size, the new zone is last and the other zones
\* keep their order; add_hazard of a zone with a new or absent identifier
\* grows the store by exactly one; a hazard list handed to a route
\* computation is not changed by a later add_hazard or delete_hazard.
C21_AddIsUpsert ==
    /\ [][ pc' = "add_hazard" =>
             LET h == response'.hazard
             IN  /\ hazard_zones' = Append(Without(hazard_zones, h.id), h)
                 /\ IF \E i \in 1..Len(hazard_zones) : hazard_zones[i].id = h.id
                    THEN Len(hazard_zones') = Len(hazard_zones)
                    ELSE Len(hazard_zones') = Len(hazard_zones) + 1 ]_vars
    /\ [][ pc' \in {"add_hazard", "delete_hazard"} => hazards' = hazards ]_vars

====
